---------------------------- MODULE Spec2Model ----------------------------
(***************************************************************************)
(* A-Puzzle-A-Day solver (src/src/main.rs): Piece geometry, orientation    *)
(* generation, the fit test and the backtracking search of Board.          *)
(*                                                                         *)
(* A char is a one-character string.  A Piece is a record                  *)
(* [id |-> char, data |-> rows], rows a sequence of sequences of chars.    *)
(* The source indexes from 0, sequences from 1: data[r][c] of the source   *)
(* is p.data[r + 1][c + 1] here.                                           *)
(***************************************************************************)
EXTENDS Integers, Sequences, FiniteSets

\* ------------------------------------------------------------------ bounds

\* Cap on the calls counter of one run under Spec, for the dates outside
\* DeepDates.
MaxCalls == 6
\* Cap on the calls counter of one run under SpecArgs.
MaxCallsArgs == 2
\* Largest day and month argument tried under SpecArgs.
MaxDay == 36
MaxMonth == 43
\* Cap on the calls counter of one run for the dates of DeepDates, under Spec
\* and SpecDeep.
MaxCallsDeep == 20

\* ------------------------------------------------------- static definitions

PIECES ==
    << << <<"F", ".", ".">>, <<"F", ".", ".">>, <<"F", "F", "F">> >>,
       << <<"T", "T", "T", "T">>, <<".", "T", ".", ".">> >>,
       << <<"S", "S", ".", ".">>, <<".", "S", "S", "S">> >>,
       << <<"Q", "Q", "Q">>, <<"Q", "Q", "Q">> >>,
       << <<"Z", ".", ".">>, <<"Z", "Z", "Z">>, <<".", ".", "Z">> >>,
       << <<"L", ".", ".", ".">>, <<"L", "L", "L", "L">> >>,
       << <<"U", ".", "U">>, <<"U", "U", "U">> >>,
       << <<"B", "B", ".">>, <<"B", "B", "B">> >> >>

BOARD ==
    << <<".", ".", ".", ".", ".", ".", "#">>,
       <<".", ".", ".", ".", ".", ".", "#">>,
       <<".", ".", ".", ".", ".", ".", ".">>,
       <<".", ".", ".", ".", ".", ".", ".">>,
       <<".", ".", ".", ".", ".", ".", ".">>,
       <<".", ".", ".", ".", ".", ".", ".">>,
       <<".", ".", ".", "#", "#", "#", "#">> >>

\* ------------------------------------------------------------------- Piece

\* A function on 1..k as the sequence of its values (a Vec).
Vec(f) == f \o <<>>

width(p) == Len(p.data[1])

height(p) == Len(p.data)

\* iproduct!(0..height, 0..width): every (row, col), row-major.
coords(p) ==
    [i \in 1..(height(p) * width(p)) |->
        <<(i - 1) \div width(p), (i - 1) % width(p)>>]

\* Piece::from: the id is the first char of the first row that is not '.'.
Piece_from(s) ==
    LET res == CHOOSE i \in 1..Len(s[1]) :
                   /\ s[1][i] # "."
                   /\ \A j \in 1..(i - 1) : s[1][j] = "."
    IN  [id |-> s[1][res], data |-> s]

\* Each row reversed.
rev(p) ==
    [id   |-> p.id,
     data |-> Vec([r \in 1..height(p) |->
                  Vec([c \in 1..width(p) |-> p.data[r][width(p) + 1 - c]])])]

\* Rows of the result are the columns of the receiver.
transpose(p) ==
    [id   |-> p.id,
     data |-> Vec([c \in 1..width(p) |->
                  Vec([r \in 1..height(p) |-> p.data[r][c]])])]

rotate(p) == transpose(rev(p))

\* The values the loop of generate_positions inserts, in insertion order:
\* for p in [self, rev]: q, q.rotate(), ... four times.
InsertedPositions(p) ==
    LET r == rev(p)
    IN  << p, rotate(p), rotate(rotate(p)), rotate(rotate(rotate(p))),
           r, rotate(r), rotate(rotate(r)), rotate(rotate(rotate(r))) >>

generate_positions_three(p) ==
    LET r == rev(p)
    IN  { p, rotate(p), rotate(rotate(p)), r, rotate(r), rotate(rotate(r)) }

\* The HashSet the insertions leave: equal pieces collapse.
generate_positions(p) ==
    { InsertedPositions(p)[i] : i \in 1..Len(InsertedPositions(p)) }

\* The board cells under the filled cells of p with its (0,0) at (r,c), in
\* the order of coords().
cells_at(p, r, c) ==
    LET on == SelectSeq(coords(p), LAMBDA x : p.data[x[1] + 1][x[2] + 1] # ".")
    IN  Vec([i \in 1..Len(on) |-> <<r + on[i][1], c + on[i][2]>>])

\* Whether a filled cell of p, its (0,0) at (r,c), lies on a board cell that
\* is not '.'; p must not overhang the board.
overlaps(p, b, r, c) ==
    LET pd == p.data
        bd == b.data
    IN  \E pr \in 1..height(p) : \E pc_ \in 1..width(p) :
            /\ pd[pr][pc_] # "."
            /\ bd[r + pr][c + pc_] # "."

fit_partial(p, b, r, c) ==
    IF r + height(p) > height(b) \/ c + width(p) > width(b)
    THEN <<>>
    ELSE LET cs == cells_at(p, r, c)
             bad == { i \in 1..Len(cs) : b.data[cs[i][1] + 1][cs[i][2] + 1] # "." }
         IN  IF bad = {} THEN cs
             ELSE SubSeq(cs, 1, (CHOOSE i \in bad : \A j \in bad : i <= j) - 1)

fit_no_overlap_test(p, b, r, c) ==
    IF r + height(p) > height(b) \/ c + width(p) > width(b)
    THEN <<>>
    ELSE cells_at(p, r, c)

\* Piece::fit: the board cells the piece would fill with its (0,0) at (r,c);
\* empty when it overhangs the board or a filled cell of it meets a board
\* cell that is not '.'.
fit(p, b, r, c) ==
    IF r + height(p) > height(b) \/ c + width(p) > width(b)
    THEN <<>>
    ELSE IF overlaps(p, b, r, c) THEN <<>> ELSE cells_at(p, r, c)

\* ------------------------------------------------------------------- Board

VARIABLES
    pc,      \* where the program is: "main", "panic", "solve", "call",
             \* "loop", "ret", "done"
    day,     \* args.day
    month,   \* args.month
    hash,    \* the iteration order of the 8 HashSets, as far as the run has
             \* depended on it: for piece k the pairs <<x, y>> such that
             \* orientation number x comes before orientation number y
    pieces,  \* Board.pieces, the orientations of each piece numbered in the
             \* order generate_positions first inserts them
    board,   \* Board.board
    n,       \* Board.n
    calls,   \* Board.calls
    stack,   \* the active non-terminal calls of _solve_dfs, outermost first;
             \* frame k is the call with piece_id = k - 1
    out      \* the boards printed so far

vars == <<pc, day, month, hash, pieces, board, n, calls, stack, out>>

\* A sequence without its repeated elements (the first occurrence stays).
Distinct(s) ==
    SelectSeq([i \in 1..Len(s) |-> [at |-> i, val |-> s[i]]],
              LAMBDA e : \A j \in 1..(e.at - 1) : s[j] # e.val)

\* generate_positions(..).into_iter().collect(): the members of the set as a
\* Vec.  A HashSet iterates in the order of its buckets, which its per-set
\* random hasher decides: the Vec holds the members in an order that can be
\* any.  Here the members are numbered in the order of their first
\* insertion; in which order the Vec holds them is the subject of hash.
collect(p) ==
    LET set == generate_positions(p)
        d == Distinct(InsertedPositions(p))
    IN  SelectSeq(Vec([i \in 1..Len(d) |-> d[i].val]), LAMBDA e : e \in set)

\* The loop of Board::new over PIECES: the Vec of Vecs pushed to pieces.
Collected ==
    Vec([k \in 1..Len(PIECES) |-> collect(Piece_from(PIECES[k]))])

\* What is known of one iteration order, h, once x is found to come before
\* every member of zs: h is closed under transitivity and stays so.
Before(h, x, zs) ==
    LET lo == {x} \cup { e[1] : e \in { f \in h : f[2] = x } }
        hi == zs \cup { e[2] : e \in { f \in h : f[1] \in zs } }
    IN  h \cup (lo \X hi)

\* The run so far is one the build makes when the Vecs of Board.pieces are
\* vecs: what the run has shown of each iteration order agrees with vecs.
InOrder(vecs) ==
    LET at(k, x) == CHOOSE i \in 1..Len(vecs[k]) : vecs[k][i] = Collected[k][x]
    IN  \A k \in 1..Len(hash) : \A e \in hash[k] : at(k, e[1]) < at(k, e[2])

\* board.data[r][c] = ch
set_cell(b, r, c, ch) == [b EXCEPT !.data[r + 1][c + 1] = ch]

\* The subtractions and the two indexed writes of Board::new panic: day - 1
\* or month - 1 on 0 overflows usize (a panic with overflow checks; without
\* them the value wraps to 2^64 - 1 and the row index is out of range), and a
\* row index of 7 or more is out of range.  The column indices are reduced
\* modulo 6 and 7 and are always in range.
new_panics(dayArg, monthArg) ==
    \/ dayArg = 0
    \/ monthArg = 0
    \/ (monthArg - 1) \div 6 >= Len(BOARD)
    \/ 2 + (dayArg - 1) \div 7 >= Len(BOARD)

new_board_day_row_off(dayArg, monthArg) ==
    LET d == dayArg - 1
        m == monthArg - 1
    IN  set_cell(set_cell(Piece_from(BOARD), m \div 6, m % 6, "M"),
                 1 + d \div 7, d % 7, "D")

\* The board Board::new builds: 'M' written first, then 'D'.
new_board(dayArg, monthArg) ==
    LET d == dayArg - 1
        m == monthArg - 1
    IN  set_cell(set_cell(Piece_from(BOARD), m \div 6, m % 6, "M"),
                 2 + d \div 7, d % 7, "D")

RECURSIVE write_cells_drop_last(_, _, _)
write_cells_drop_last(b, occ, ch) ==
    IF Len(occ) <= 1
    THEN b
    ELSE write_cells_drop_last(set_cell(b, occ[1][1], occ[1][2], ch), Tail(occ), ch)

\* for &(rr, cc) in occ.iter() { board.data[rr][cc] = ch; }
RECURSIVE write_cells(_, _, _)
write_cells(b, occ, ch) ==
    IF occ = <<>>
    THEN b
    ELSE write_cells(set_cell(b, occ[1][1], occ[1][2], ch), Tail(occ), ch)

\* The undo loop of _solve_dfs.
undo_cells(b, occ) == write_cells(b, occ, ".")

is_terminal_one_early(piece_id) == piece_id = Len(pieces) - 1

\* piece_id == self.pieces.len()
is_terminal(piece_id) == piece_id = Len(pieces)

\* The loops of _solve_dfs have ended.
NoCandidate == [i |-> -1, j |-> 0, occ |-> <<>>, done |-> {}]

\* The orientations of ps outside done whose fit at anchor number a (0-based,
\* in the order of coords()) is not empty.
hits_at(ps, b, a, done) ==
    { x \in (1..Len(ps)) \ done : fit(ps[x], b, a \div width(b), a % width(b)) # <<>> }

\* The first anchor of lo..hi at which some orientation has a fit that is
\* not empty, or -1.
RECURSIVE first_anchor(_, _, _, _)
first_anchor(ps, b, lo, hi) ==
    IF lo > hi THEN -1
    ELSE IF lo = hi THEN (IF hits_at(ps, b, lo, {}) # {} THEN lo ELSE -1)
    ELSE LET mid == (lo + hi) \div 2
             l == first_anchor(ps, b, lo, mid)
         IN  IF l # -1 THEN l ELSE first_anchor(ps, b, mid + 1, hi)

\* The two nested loops of _solve_dfs run on from anchor number i, where the
\* orientations of done have been applied: the candidates the loops can come
\* to next, each with its fit and with what choosing it shows of the
\* iteration order h; or NoCandidate when the loops end.  At anchor i the
\* loop over the Vec has passed the orientations of done and orientations
\* whose fit is empty (b is the board it saw them on: the cells a candidate
\* wrote were '.' before, and the undo loop has reset them), so every other
\* orientation that fits lies ahead; at a later anchor the loop over the Vec
\* starts anew.  The loops come to the orientation that is first in the Vec
\* among those ahead that fit: any of them that none of the others is known
\* to precede, and with it the run shows that it precedes the others.  No
\* order is excluded: a relation without cycles extends to an order of the
\* whole Vec, and each order picks one candidate at every step.
next_fit(ps, b, i, done, h) ==
    LET N == height(b) * width(b)
        here == IF i < N THEN hits_at(ps, b, i, done) ELSE {}
        a == IF here # {} THEN i ELSE first_anchor(ps, b, i + 1, N - 1)
        ahead == IF a = -1 THEN {} ELSE IF a = i THEN here ELSE hits_at(ps, b, a, {})
    IN  IF ahead = {}
        THEN { [cand |-> NoCandidate, order |-> h] }
        ELSE { [cand  |-> [i |-> a, j |-> x,
                           occ |-> fit(ps[x], b, a \div width(b), a % width(b)),
                           done |-> IF a = i THEN done ELSE {}],
                order |-> Before(h, x, ahead \ {x})] :
               x \in { y \in ahead : \A z \in ahead : <<z, y>> \notin h } }

Top == stack[Len(stack)]

\* The states main starts Board::new in, for the given arguments: no HashSet
\* has been iterated.
Start(days, months) ==
    /\ pc = "main"
    /\ day \in days
    /\ month \in months
    /\ hash = Vec([k \in 1..Len(PIECES) |-> {}])
    /\ pieces = <<>>
    /\ board = Piece_from(BOARD)
    /\ n = 0
    /\ calls = 0
    /\ stack = <<>>
    /\ out = <<>>

\* Board::new
New ==
    /\ pc = "main"
    /\ IF new_panics(day, month)
       THEN /\ pc' = "panic"
            /\ UNCHANGED <<pieces, board, n, calls>>
       ELSE /\ pc' = "solve"
            /\ pieces' = Collected
            /\ board' = new_board(day, month)
            /\ n' = 1
            /\ calls' = 0
    /\ UNCHANGED <<day, month, hash, stack, out>>

\* solve_dfs up to its call of _solve_dfs(.., 0)
Solve ==
    /\ pc = "solve"
    /\ n' = 1
    /\ calls' = 0
    /\ pc' = "call"
    /\ UNCHANGED <<day, month, hash, pieces, board, stack, out>>

\* _solve_dfs entered with piece_id = Len(stack) < pieces.len(): the counter,
\* then the loops run to the first candidate whose fit is not empty, or to
\* their end.  The frame holds the loop position: the anchor number i, the
\* orientation j the loop over the Vec is at, the orientations done that it
\* has applied at this anchor before j, and occ; and, as history, the number
\* of candidates applied so far.
Enter(limit) ==
    /\ pc = "call"
    /\ calls < limit
    /\ ~is_terminal(Len(stack))
    /\ calls' = calls + 1
    /\ \E nf \in next_fit(pieces[Len(stack) + 1], board, 0, {}, hash[Len(stack) + 1]) :
           /\ stack' = Append(stack, [i |-> nf.cand.i, j |-> nf.cand.j,
                                      occ |-> nf.cand.occ, done |-> nf.cand.done,
                                      tried |-> 0])
           /\ hash' = [hash EXCEPT ![Len(stack) + 1] = nf.order]
    /\ pc' = "loop"
    /\ UNCHANGED <<day, month, pieces, board, n, out>>

\* _solve_dfs entered with piece_id == pieces.len(): print and return.
Report(limit) ==
    /\ pc = "call"
    /\ calls < limit
    /\ is_terminal(Len(stack))
    /\ calls' = calls + 1
    /\ out' = Append(out, board)
    /\ n' = n + 1
    /\ pc' = IF stack = <<>> THEN "done" ELSE "ret"
    /\ UNCHANGED <<day, month, hash, pieces, board, stack>>

\* occ is not empty: its cells are written and _solve_dfs is called for the
\* next piece.
Place ==
    /\ pc = "loop"
    /\ Top.occ # <<>>
    /\ board' = write_cells(board, Top.occ, pieces[Len(stack)][Top.j].id)
    /\ stack' = [stack EXCEPT ![Len(stack)] =
                    [@ EXCEPT !.tried = @ + 1]]
    /\ pc' = "call"
    /\ UNCHANGED <<day, month, hash, pieces, n, calls, out>>

\* The loops have ended: the call returns; when it is the outermost call,
\* solve_dfs prints the counter and returns.
Exhaust ==
    /\ pc = "loop"
    /\ Top.occ = <<>>
    /\ stack' = SubSeq(stack, 1, Len(stack) - 1)
    /\ pc' = IF Len(stack) = 1 THEN "done" ELSE "ret"
    /\ UNCHANGED <<day, month, hash, pieces, board, n, calls, out>>

\* Back from the recursive call: the candidate's cells are reset, and the
\* loops run on to the next candidate whose fit is not empty, or to their end.
Undo ==
    /\ pc = "ret"
    /\ board' = undo_cells(board, Top.occ)
    /\ \E nf \in next_fit(pieces[Len(stack)], board', Top.i, Top.done \cup {Top.j},
                          hash[Len(stack)]) :
           /\ stack' = [stack EXCEPT ![Len(stack)] =
                           [@ EXCEPT !.i = nf.cand.i, !.j = nf.cand.j,
                                     !.occ = nf.cand.occ, !.done = nf.cand.done]]
           /\ hash' = [hash EXCEPT ![Len(stack)] = nf.order]
    /\ pc' = "loop"
    /\ UNCHANGED <<day, month, pieces, n, calls, out>>

Step(limit) ==
    \/ New
    \/ Solve
    \/ Enter(limit)
    \/ Report(limit)
    \/ Place
    \/ Exhaust
    \/ Undo

\* The dates <<day, month>> whose runs are followed deep into the search.
DeepDates == { <<4, 4>>, <<20, 7>> }

\* The number of calls of _solve_dfs a run is followed for.
Limit == IF <<day, month>> \in DeepDates THEN MaxCallsDeep ELSE MaxCalls

\* Every date of the calendar domain, under every iteration order of the
\* HashSets; a run is followed for Limit calls of _solve_dfs.
Init == Start(1..31, 1..12)

Next == Step(Limit)

Spec == Init /\ [][Next]_vars

\* Any arguments the command line can carry, up to MaxDay and MaxMonth; a run
\* is followed through Board::new and the first MaxCallsArgs calls.
InitArgs == Start(0..MaxDay, 0..MaxMonth)

NextArgs ==
    \/ New
    \/ Solve
    \/ Enter(MaxCallsArgs)
    \/ Place

SpecArgs == InitArgs /\ [][NextArgs]_vars

\* The dates of DeepDates; a run is followed for MaxCallsDeep calls of
\* _solve_dfs, under every iteration order of the HashSets.
InitDeep == \E d \in DeepDates : Start({d[1]}, {d[2]})

NextDeep == Step(MaxCallsDeep)

SpecDeep == InitDeep /\ [][NextDeep]_vars

\* ------------------------------------------------------------ Board::new

\* The cell (r, c) of a board, 0-based as in the source.
cell(b, r, c) == b.data[r + 1][c + 1]

\* Every (row, col) of the fixed board.
Cells == { <<r, c>> : r \in 0..(Len(BOARD) - 1), c \in 0..(Len(BOARD[1]) - 1) }

\* The cells of the month region and of the day region of the calendar.
MonthCells == { <<(m - 1) \div 6, (m - 1) % 6>> : m \in 1..12 }

DayCells == { <<2 + (d - 1) \div 7, (d - 1) % 7>> : d \in 1..31 }

\* C3 as stated: for day 15 and month 6 Board::new leaves 'M' on (row 0,
\* col 5) and 'D' on (row 3, col 0) before the search begins.
C3_DayFifteenOnRowThree ==
    (pc = "solve" /\ day = 15 /\ month = 6)
        => (cell(board, 0, 5) = "M" /\ cell(board, 3, 0) = "D")

\* C3, amended: for day 15 and month 6 Board::new leaves 'M' on (row 0,
\* col 5) and 'D' on (row 4, col 0) before the search begins, and every other
\* cell as on the fixed board.
C3_JuneFifteenMarked ==
    (pc = "solve" /\ day = 15 /\ month = 6)
        => /\ cell(board, 0, 5) = "M"
           /\ cell(board, 4, 0) = "D"
           /\ \A x \in Cells \ {<<0, 5>>, <<4, 0>>} :
                  cell(board, x[1], x[2]) = BOARD[x[1] + 1][x[2] + 1]

\* Board::new has returned for day 15 and month 6.
C3_Witness == pc = "solve" /\ day = 15 /\ month = 6

\* C4 as stated: with a day or a month of 0, a month above 12 or a day above
\* 31, _solve_dfs is never called and no cell outside the month region holds
\* 'M' and no cell outside the day region holds 'D'.
C4_InvalidInputRefused ==
    (day = 0 \/ month = 0 \/ month > 12 \/ day > 31)
        => /\ calls = 0
           /\ \A x \in Cells :
                  /\ cell(board, x[1], x[2]) = "M" => x \in MonthCells
                  /\ cell(board, x[1], x[2]) = "D" => x \in DayCells

\* ------------------------------------------------------ generate_positions

\* p rotated i times.
RECURSIVE rotated(_, _)
rotated(p, i) == IF i = 0 THEN p ELSE rotate(rotated(p, i - 1))

\* C9: the orientations Board::new collects for each of the 8 pieces are
\* between 1 and 8 pairwise distinct grids, each is the seed or its
\* reflection rotated 0 to 3 times, and rotating any of them once more gives
\* one of them.
C9_OrientationsClosed ==
    pc = "solve" =>
        \A k \in 1..Len(PIECES) :
            LET seed == Piece_from(PIECES[k])
                ps == pieces[k]
            IN  /\ Len(ps) \in 1..8
                /\ \A x, y \in 1..Len(ps) : ps[x] = ps[y] => x = y
                /\ \A x \in 1..Len(ps) :
                       \E i \in 0..3 : \/ ps[x] = rotated(seed, i)
                                       \/ ps[x] = rotated(rev(seed), i)
                /\ \A x \in 1..Len(ps) :
                       \E y \in 1..Len(ps) : rotate(ps[x]) = ps[y]

\* Board::new has collected the orientations: a piece with all 8 of them, a
\* piece with 2, and a piece with 4.
C9_Witness ==
    /\ pc = "solve"
    /\ \E k \in 1..Len(PIECES) : Len(pieces[k]) = 8
    /\ \E k \in 1..Len(PIECES) : Len(pieces[k]) = 2
    /\ \E k \in 1..Len(PIECES) : Len(pieces[k]) = 4

\* ------------------------------------------------------------ _solve_dfs

\* The number of cells of a grid that are not '.'.
filled(p) ==
    Cardinality({ x \in { <<r, c>> : r \in 1..height(p), c \in 1..width(p) } :
                    p.data[x[1]][x[2]] # "." })

\* The search is running: solve_dfs has called _solve_dfs.
Searching == pc \in {"call", "loop", "ret", "done"}

\* C10: while solve_dfs runs, the month cell holds 'M', the day cell holds
\* 'D' and every '#' cell of the fixed board holds '#'.
C10_MarkersAndBlockedKept ==
    Searching =>
        /\ cell(board, (month - 1) \div 6, (month - 1) % 6) = "M"
        /\ cell(board, 2 + (day - 1) \div 7, (day - 1) % 7) = "D"
        /\ \A x \in Cells : BOARD[x[1] + 1][x[2] + 1] = "#"
                               => cell(board, x[1], x[2]) = "#"

\* A candidate of a second or later piece was applied and undone.
C10_Witness == pc = "loop" /\ Len(stack) >= 2 /\ Top.tried >= 1

\* The sum of filled over the seeds of the first k pieces.
RECURSIVE placed_cells(_)
placed_cells(k) ==
    IF k = 0 THEN 0 ELSE placed_cells(k - 1) + filled(Piece_from(PIECES[k]))

\* C7: on every entry to _solve_dfs with piece index k, the cells that are
\* neither '.' nor '#' number the filled cells of the pieces below k plus 2,
\* and the board is the marked board with, for each piece below k, its id on
\* the cells of the placement chosen for it and nothing else changed.
C7_BoardHoldsChosenPlacements ==
    pc = "call" =>
        LET k == Len(stack)
            cellsOf(x) == { stack[x].occ[y] : y \in 1..Len(stack[x].occ) }
            marked == new_board(day, month)
        IN  /\ Cardinality({ x \in Cells : cell(board, x[1], x[2]) \notin {".", "#"} })
                   = placed_cells(k) + 2
            /\ \A x \in Cells :
                   IF \E f \in 1..k : x \in cellsOf(f)
                   THEN \E f \in 1..k :
                            /\ x \in cellsOf(f)
                            /\ cell(board, x[1], x[2]) = Piece_from(PIECES[f]).id
                   ELSE cell(board, x[1], x[2]) = cell(marked, x[1], x[2])

\* _solve_dfs is entered with all 8 pieces placed.
C7_Witness == pc = "call" /\ Len(stack) = Len(PIECES)

\* The cells of board b that hold ch.
cells_with(b, ch) == { x \in Cells : cell(b, x[1], x[2]) = ch }

\* The filled cells of grid p, its (0,0) at (r, c).
shape_at(p, r, c) ==
    { <<r + pr - 1, c + pc_ - 1>> :
        <<pr, pc_>> \in { y \in { <<i, j>> : i \in 1..height(p), j \in 1..width(p) } :
                            p.data[y[1]][y[2]] # "." } }

\* b is a complete tiling: no '.', one 'M', one 'D', the '#' cells those of
\* the fixed board, and each piece's id on the cells of one of its
\* orientations, as many cells as the piece has filled cells.
CompleteTiling(b) ==
    /\ cells_with(b, ".") = {}
    /\ Cardinality(cells_with(b, "M")) = 1
    /\ Cardinality(cells_with(b, "D")) = 1
    /\ cells_with(b, "#") = { x \in Cells : BOARD[x[1] + 1][x[2] + 1] = "#" }
    /\ \A k \in 1..Len(PIECES) :
           LET seed == Piece_from(PIECES[k])
               on == cells_with(b, seed.id)
           IN  /\ Cardinality(on) = filled(seed)
               /\ \E o \in generate_positions(seed) :
                      \E a \in Cells : shape_at(o, a[1], a[2]) = on

\* C1: for every date, every board _solve_dfs reports is a complete tiling.
C1_ReportedBoardsComplete ==
    \A i \in 1..Len(out) : CompleteTiling(out[i])

\* A board has been reported.
C1_Witness == Len(out) > 0

\* C8: on the board of any call of _solve_dfs, for every orientation p of the
\* piece to place and every anchor (r, c), fit returns the empty list or a
\* list of as many cells as p has filled cells; when it is not empty, p lies
\* within the board, every board cell under a filled cell of p is '.', and
\* the list holds exactly those cells.
C8_FitAllOrNothing ==
    (pc = "call" /\ Len(stack) < Len(pieces)) =>
        \A x \in 1..Len(pieces[Len(stack) + 1]) : \A a \in Cells :
            LET p == pieces[Len(stack) + 1][x]
                occ == fit(p, board, a[1], a[2])
            IN  /\ occ = <<>> \/ Len(occ) = filled(p)
                /\ occ # <<>> =>
                       /\ a[1] + height(p) <= height(board)
                       /\ a[2] + width(p) <= width(board)
                       /\ \A y \in shape_at(p, a[1], a[2]) :
                              cell(board, y[1], y[2]) = "."
                       /\ { occ[i] : i \in 1..Len(occ) } = shape_at(p, a[1], a[2])

\* fit is applied on a board with pieces placed, where some orientation fits
\* an anchor and some orientation within the board does not.
C8_Witness ==
    /\ pc = "call"
    /\ Len(stack) \in 3..(Len(pieces) - 1)
    /\ \E x \in 1..Len(pieces[Len(stack) + 1]) : \E a \in Cells :
           fit(pieces[Len(stack) + 1][x], board, a[1], a[2]) # <<>>
    /\ \E x \in 1..Len(pieces[Len(stack) + 1]) : \E a \in Cells :
           LET p == pieces[Len(stack) + 1][x]
           IN  /\ a[1] + height(p) <= height(board)
               /\ a[2] + width(p) <= width(board)
               /\ fit(p, board, a[1], a[2]) = <<>>

=============================================================================
